---- MODULE Spec2Model ----
(***************************************************************************)
(* Model of inter-rater_variability/                                       *)
(*   03a_generate_figure_inter_rater_variablity-PMJ_COV.py                 *)
(*                                                                         *)
(* One run of main(): glob the CSV files, read and concatenate them, keep  *)
(* the cervical levels, derive rater/subject from fname, draw the figure,  *)
(* compute the midpoint / COV table.                                       *)
(*                                                                         *)
(* Number representation (TLC has integers only):                          *)
(*   distances and heights      : millimetres (integers)                   *)
(*   midpoints ("mean")         : half millimetres, so end + height/2 is   *)
(*                                stored exactly as 2*end + height          *)
(*   COV_<subject>, COV_mean    : tenths of a percent, truncated            *)
(*   x coordinates              : thousandths of an axis unit               *)
(*   y axis limits              : hundredths of a millimetre                *)
(* A float is the tuple <<"float", n>>, NaN is <<"NaN">>, the string 'n/a'  *)
(* is <<"n/a">>, a raised TypeError is <<"TypeError">>.                     *)
(***************************************************************************)
EXTENDS Integers, Sequences, FiniteSets, TLC

VARIABLES pc, csv_files, parsed_data, df, fig, results, pivot, table, err

vars == <<pc, csv_files, parsed_data, df, fig, results, pivot, table, err>>

(* ---------------------------------------------------------------------- *)
(* Bounds of the input family                                              *)
(* ---------------------------------------------------------------------- *)
MaxFiles == 3

MaxLevel == 9

(* ---------------------------------------------------------------------- *)
(* Module constants of the script                                          *)
(* ---------------------------------------------------------------------- *)
SubjectKeys == <<"sub-barcelona01", "sub-brnoUhb03", "sub-amu02", "sub-007", "sub-010">>

SUBJECT_TO_AXIS == [s \in {SubjectKeys[i] : i \in 1..Len(SubjectKeys)} |->
                      CHOOSE i \in 1..Len(SubjectKeys) : SubjectKeys[i] = s]

LIST_OF_RATER == <<"rater1", "rater2", "rater3", "rater4">>

RATER_XOFFSET == [r \in {LIST_OF_RATER[i] : i \in 1..Len(LIST_OF_RATER)} |->
                    CASE r = "rater1" -> -275
                      [] r = "rater2" -> -125
                      [] r = "rater3" -> 25
                      [] r = "rater4" -> 175]

RATER_COLOR == [r \in {LIST_OF_RATER[i] : i \in 1..Len(LIST_OF_RATER)} |->
                  CASE r = "rater1" -> "red"
                    [] r = "rater2" -> "green"
                    [] r = "rater3" -> "blue"
                    [] r = "rater4" -> "orange"]

CervicalLevels == {2, 3, 4, 5, 6, 7, 8}

RectWidth == 100

YTicks == {t \in 40..169 : (t - 40) % 10 = 0}

(* ---------------------------------------------------------------------- *)
(* Values                                                                  *)
(* ---------------------------------------------------------------------- *)
NaN == <<"NaN">>

NA == <<"n/a">>

TypeError == <<"TypeError">>

F(n) == <<"float", n>>

IsFloat(v) == Len(v) = 2

Range(s) == {s[i] : i \in 1..Len(s)}

Min2(a, b) == IF a <= b THEN a ELSE b

Max2(a, b) == IF a >= b THEN a ELSE b

SetMin(S) == CHOOSE x \in S : \A y \in S : x <= y

SetMax(S) == CHOOSE x \in S : \A y \in S : x >= y

RECURSIVE SeqSum(_)
SeqSum(s) == IF s = <<>> THEN 0 ELSE Head(s) + SeqSum(Tail(s))

RECURSIVE SortedSeq(_)
SortedSeq(S) == IF S = {} THEN <<>> ELSE <<SetMin(S)>> \o SortedSeq(S \ {SetMin(S)})

RECURSIVE Concat(_)
Concat(ss) == IF ss = <<>> THEN <<>> ELSE Head(ss) \o Concat(Tail(ss))

(* a function over 1..n as an evaluated list *)
AsList(f) == f \o <<>>

(* a function over any finite domain as an evaluated mapping *)
AsMap(f) == f @@ [x \in {} |-> x]

(* ---------------------------------------------------------------------- *)
(* The input family: the CSV files the glob can find                        *)
(* ---------------------------------------------------------------------- *)
(* fname is  stem[1]_stem[2]_..._stem[n].ext ; only the extension has dots *)
Fname(tokens) == [stem |-> tokens, ext |-> "nii.gz"]

Catalog ==
  << Fname(<<"sub-barcelona01", "T2w", "label-rootlet", "rater1">>),
     Fname(<<"sub-barcelona01", "T2w", "label-rootlet", "rater2">>),
     Fname(<<"sub-barcelona01", "T2w", "label-rootlet", "rater3">>),
     Fname(<<"sub-barcelona01", "T2w", "label-rootlet", "rater4">>),
     Fname(<<"sub-007", "ses-headNormal", "T2w", "label-rootlet", "rater1">>),
     Fname(<<"sub-007", "ses-headNormal", "T2w", "label-rootlet", "rater2">>),
     Fname(<<"sub-007", "ses-headNormal", "T2w", "label-rootlet", "rater3">>),
     Fname(<<"sub-007", "ses-headNormal", "T2w", "label-rootlet", "rater4">>),
     Fname(<<"sub-007", "ses-headUp", "T2w", "label-rootlet", "rater1">>),
     Fname(<<"sub-999", "T2w", "label-rootlet", "rater1">>),
     Fname(<<"sub-barcelona01", "T2w", "label-rootlet", "rater5">>) >>

(* what a file of the catalog may hold: levels 2 and 3, levels 1 and 2,   *)
(* or only a level beyond the cervical range                               *)
CatalogKinds(i) ==
  IF i <= 4 THEN {"both", "low", "high"}
  ELSE IF i <= 8 THEN {"both", "low"}
  ELSE {"both"}

KindLevels(kind) ==
  CASE kind = "both" -> <<2, 3>>
    [] kind = "low"  -> <<1, 2>>
    [] kind = "high" -> <<MaxLevel>>

RaterShift(rater) ==
  CASE rater = "rater2" -> 2
    [] rater = "rater3" -> 1
    [] OTHER -> 0

CsvRow(fname, kind, level) ==
  LET rater  == fname.stem[Len(fname.stem)]
      spread == IF fname.stem[1] = "sub-007" THEN 2 ELSE 1
      height == IF rater = "rater2" THEN 11 ELSE 10
      end    == 20 * level + 10 + spread * RaterShift(rater) + (IF kind = "low" THEN 4 ELSE 0)
  IN [fname |-> fname,
      spinal_level |-> level,
      distance_from_pmj_start |-> end - height - (IF kind = "low" THEN 1 ELSE 0),
      distance_from_pmj_end |-> end,
      height |-> height]

CsvFile(i, kind) ==
  AsList([j \in 1..Len(KindLevels(kind)) |-> CsvRow(Catalog[i], kind, KindLevels(kind)[j])])

(* the empty directory, and one where two subjects are fully annotated *)
Bases == {<<>>, [i \in 1..8 |-> "both"]}

(* at most MaxFiles files added to a base or replacing one of its files *)
Edits ==
  UNION {{e \in [I -> {"both", "low", "high"}] : \A i \in I : e[i] \in CatalogKinds(i)} :
           I \in {J \in SUBSET (1..Len(Catalog)) : Cardinality(J) <= MaxFiles}}

Directories ==
  {[i \in (DOMAIN b) \cup (DOMAIN e) |-> IF i \in DOMAIN e THEN e[i] ELSE b[i]] :
     b \in Bases, e \in Edits}

GlobResult(dir) ==
  LET order == SortedSeq(DOMAIN dir)
  IN AsList([k \in 1..Len(order) |-> CsvFile(order[k], dir[order[k]])])

(* ---------------------------------------------------------------------- *)
(* main: lines 246-252                                                     *)
(* ---------------------------------------------------------------------- *)
(* variant: the list of kept levels starts one level too early *)
IsIn_from1(rec) == rec.spinal_level \in (CervicalLevels \cup {1})

IsIn(rec) == rec.spinal_level \in CervicalLevels

RaterOf(fname) == fname.stem[Len(fname.stem)]

SubjectOf(fname) == fname.stem[1]

LevelFilterDf(d) ==
  LET kept == SelectSeq(d, IsIn)
  IN AsList([i \in 1..Len(kept) |->
        [fname |-> kept[i].fname,
         spinal_level |-> kept[i].spinal_level,
         distance_from_pmj_start |-> kept[i].distance_from_pmj_start,
         distance_from_pmj_end |-> kept[i].distance_from_pmj_end,
         height |-> kept[i].height,
         rater |-> RaterOf(kept[i].fname),
         subject |-> SubjectOf(kept[i].fname)]])

(* ---------------------------------------------------------------------- *)
(* Shared by generate_figure and compute_mean_and_COV                      *)
(* ---------------------------------------------------------------------- *)
Column(d, name) == AsList([i \in 1..Len(d) |-> d[i][name]])

(* the distinct values in order of first appearance *)
Unique(s) ==
  LET t     == AsList(s)
      first == SelectSeq(AsList([i \in 1..Len(t) |-> i]),
                         LAMBDA i : \A j \in 1..(i - 1) : t[j] # t[i])
  IN AsList([k \in 1..Len(first) |-> t[first[k]]])

(* the three nested loops, in iteration order *)
LoopKeys(levels) ==
  LET nr == Len(LIST_OF_RATER)
      nl == Len(levels)
  IN AsList([k \in 1..(Len(SubjectKeys) * nr * nl) |->
               [subject |-> SubjectKeys[((k - 1) \div (nr * nl)) + 1],
                rater   |-> LIST_OF_RATER[(((k - 1) \div nl) % nr) + 1],
                level   |-> levels[((k - 1) % nl) + 1]]])

RowOf(d, key) ==
  SelectSeq(d, LAMBDA rec : rec.subject = key.subject /\ rec.rater = key.rater
                            /\ rec.spinal_level = key.level)

(* variant: the first of several matches is taken (series.iloc[0]) *)
Float_first(series) == F(series[1])

Float(series) == IF Len(series) = 1 THEN F(series[1]) ELSE TypeError

(* ---------------------------------------------------------------------- *)
(* generate_figure                                                          *)
(* ---------------------------------------------------------------------- *)
(* variant: the per-rater offset is left out of the x position *)
Artists_nooffset(key, start, height) ==
  [xy       |-> <<SUBJECT_TO_AXIS[key.subject] * 1000, start>>,
   width    |-> RectWidth,
   height   |-> height,
   color    |-> RATER_COLOR[key.rater],
   text     |-> key.level,
   meanline |-> 2 * start + height]

(* Rectangle, level text and dashed mean line of one loop iteration *)
Artists(key, start, height) ==
  [xy       |-> <<SUBJECT_TO_AXIS[key.subject] * 1000 + RATER_XOFFSET[key.rater], start>>,
   width    |-> RectWidth,
   height   |-> height,
   color    |-> RATER_COLOR[key.rater],
   text     |-> key.level,
   meanline |-> 2 * start + height]

(* ax.set_ylim(min(...)*0.9, max(...)*1.05); NaN on an empty frame *)
DataYlim(d) ==
  IF d = <<>> THEN NaN
  ELSE LET ends   == Range(Column(d, "distance_from_pmj_end"))
           starts == Range(Column(d, "distance_from_pmj_start"))
       IN <<"lim", Min2(SetMin(ends), SetMin(starts)) * 90,
                   Max2(SetMax(ends), SetMax(starts)) * 105>>

(* set_yticks widens the view to hold every tick; the limits are then reversed *)
FinalYlim(lim) ==
  <<Max2(lim[3], SetMax(YTicks) * 100), Min2(lim[2], SetMin(YTicks) * 100)>>

FigureOf(d) ==
  LET keys    == LoopKeys(Unique(Column(d, "spinal_level")))
      hit     == SelectSeq(keys, LAMBDA key : RowOf(d, key) # <<>>)
      startOf(key)  == Float(Column(RowOf(d, key), "distance_from_pmj_end"))
      heightOf(key) == Float(Column(RowOf(d, key), "height"))
      raises  == \E k \in 1..Len(hit) :
                    startOf(hit[k]) = TypeError \/ heightOf(hit[k]) = TypeError
  IN IF raises
       THEN [raised |-> "TypeError", patches |-> <<>>, ylim |-> <<>>]
     ELSE IF DataYlim(d) = NaN
       THEN [raised |-> "ValueError", patches |-> <<>>, ylim |-> <<>>]
     ELSE [raised  |-> "none",
           patches |-> [k \in 1..Len(hit) |->
                          Artists(hit[k], startOf(hit[k])[2], heightOf(hit[k])[2])],
           ylim    |-> FinalYlim(DataYlim(d))]

(* ---------------------------------------------------------------------- *)
(* compute_mean_and_COV: lines 178-203                                     *)
(* ---------------------------------------------------------------------- *)
Midpoint(start, height) == 2 * start + height

(* variant: the midpoint is taken from distance_from_pmj_start *)
MeanOf_fromstart(row) ==
  LET start  == Float(Column(row, "distance_from_pmj_start"))
      height == Float(Column(row, "height"))
  IN IF start = TypeError \/ height = TypeError THEN TypeError
     ELSE F(Midpoint(start[2], height[2]))

MeanOf(row) ==
  LET start  == Float(Column(row, "distance_from_pmj_end"))
      height == Float(Column(row, "height"))
  IN IF start = TypeError \/ height = TypeError THEN TypeError
     ELSE F(Midpoint(start[2], height[2]))

(* variant: an absent combination is stored as 0 *)
Entry_zero(d, key) ==
  [subject |-> key.subject, rater |-> key.rater, spinal_level |-> key.level,
   mean |-> IF RowOf(d, key) = <<>> THEN F(0) ELSE MeanOf(RowOf(d, key))]

Entry(d, key) ==
  [subject |-> key.subject, rater |-> key.rater, spinal_level |-> key.level,
   mean |-> IF RowOf(d, key) = <<>> THEN NA ELSE MeanOf(RowOf(d, key))]

(* variant: the level loop runs over the levels of the roster records only *)
ResultsOf_rosterlevels(d) ==
  LET own  == SelectSeq(d, LAMBDA rec : rec.subject \in Range(SubjectKeys)
                                        /\ rec.rater \in Range(LIST_OF_RATER))
      keys == LoopKeys(Unique(Column(own, "spinal_level")))
  IN AsList([k \in 1..Len(keys) |-> Entry(d, keys[k])])

ResultsOf(d) ==
  LET keys == LoopKeys(Unique(Column(d, "spinal_level")))
  IN AsList([k \in 1..Len(keys) |-> Entry(d, keys[k])])

PivotIndex(res) == SortedSeq(Range(Column(res, "spinal_level")))

PivotColumns(res) == Unique([k \in 1..Len(res) |-> <<res[k].subject, res[k].rater>>])

PivotOf(res) ==
  LET index   == PivotIndex(res)
      columns == PivotColumns(res)
      cell(l, col) == SelectSeq(res, LAMBDA e : /\ e.subject = col[1]
                                                /\ e.rater = col[2]
                                                /\ e.spinal_level = l)
  IN [index   |-> index,
      columns |-> columns,
      data    |-> AsMap([c \in {<<l, col[1], col[2]>> : l \in Range(index), col \in Range(columns)} |->
                           LET m == cell(c[1], <<c[2], c[3]>>)
                           IN IF m = <<>> THEN NaN ELSE m[1].mean])]

(* ---------------------------------------------------------------------- *)
(* compute_mean_and_COV: lines 205-210                                     *)
(* ---------------------------------------------------------------------- *)
RECURSIVE GCD(_, _)
GCD(a, b) == IF b = 0 THEN a ELSE GCD(b, a % b)

RECURSIVE ISqrtIn(_, _, _)
ISqrtIn(q, lo, hi) ==
  IF lo >= hi THEN lo
  ELSE LET mid == (lo + hi + 1) \div 2
       IN IF mid * mid <= q THEN ISqrtIn(q, mid, hi) ELSE ISqrtIn(q, lo, mid - 1)

ISqrt(q) == ISqrtIn(q, 0, Min2(q, 46340))

(* variant: a missing cell is read as 0 *)
SubjectRow_zero(pv, subject, l) ==
  LET cols == SelectSeq(pv.columns, LAMBDA c : c[1] = subject)
  IN AsList([k \in 1..Len(cols) |->
               IF pv.data[<<l, subject, cols[k][2]>>] = NA THEN F(0)
               ELSE pv.data[<<l, subject, cols[k][2]>>]])

(* the four rater cells of one subject on one row of the pivot table *)
SubjectRow(pv, subject, l) ==
  LET cols == SelectSeq(pv.columns, LAMBDA c : c[1] = subject)
  IN AsList([k \in 1..Len(cols) |-> pv.data[<<l, subject, cols[k][2]>>]])

HasString(pv, subject) ==
  \E l \in Range(pv.index) : NA \in Range(SubjectRow(pv, subject, l))

(* sample standard deviation (ddof = 1, NaN skipped) as <<"sqrt", num, den>> *)
RowStd(vals) ==
  LET xs == SelectSeq(vals, IsFloat)
      n  == Len(xs)
      S  == SeqSum([k \in 1..n |-> xs[k][2]])
      Q  == SeqSum([k \in 1..n |-> xs[k][2] * xs[k][2]])
  IN IF n < 2 THEN NaN ELSE <<"sqrt", n * Q - S * S, n * (n - 1)>>

(* mean with NaN skipped, as <<"frac", num, den>> *)
RowMean(vals) ==
  LET xs == SelectSeq(vals, IsFloat)
      n  == Len(xs)
  IN IF n = 0 THEN NaN ELSE <<"frac", SeqSum([k \in 1..n |-> xs[k][2]]), n>>

(* DataFrame reduction over axis=1 of an object-dtype frame.  A string cell *)
(* makes the reduction fail; pandas before 2.0 then drops every non-numeric*)
(* column and reduces what is left (nothing: all-NaN), pandas from 2.0 on   *)
(* raises the TypeError.                                                    *)
StdAxis1(pv, subject, nuisance) ==
  IF HasString(pv, subject)
    THEN [raised |-> ~nuisance, val |-> AsMap([l \in Range(pv.index) |-> NaN])]
    ELSE [raised |-> FALSE,
          val    |-> AsMap([l \in Range(pv.index) |-> RowStd(SubjectRow(pv, subject, l))])]

(* the same reduction for .mean(axis=1) *)
MeanAxis1(pv, subject, nuisance) ==
  IF HasString(pv, subject)
    THEN [raised |-> ~nuisance, val |-> AsMap([l \in Range(pv.index) |-> NaN])]
    ELSE [raised |-> FALSE,
          val    |-> AsMap([l \in Range(pv.index) |-> RowMean(SubjectRow(pv, subject, l))])]

(* (std / mean) * 100, in tenths of a percent, truncated *)
Percent(sd, mn) ==
  IF sd = NaN \/ mn = NaN THEN NaN
  ELSE IF mn[2] = 0 THEN NaN
  ELSE LET a0  == sd[2] * mn[3] * mn[3]
           d0  == sd[3] * mn[2] * mn[2]
           g   == GCD(a0, d0)
           a   == a0 \div g
           den == d0 \div g
           q1  == (1000 * a) \div den
           r1  == (1000 * a) % den
       IN F(ISqrt(q1 * 1000 + (r1 * 1000) \div den))

COVColumn(pv, subject, nuisance) ==
  LET sd == StdAxis1(pv, subject, nuisance)
      mn == MeanAxis1(pv, subject, nuisance)
  IN [raised |-> sd.raised \/ mn.raised,
      val    |-> AsMap([l \in Range(pv.index) |-> Percent(sd.val[l], mn.val[l])])]

(* variant: skipna=False *)
COVMean_noskip(covs) ==
  IF \E k \in 1..Len(covs) : ~IsFloat(covs[k]) THEN NaN
  ELSE F(SeqSum([k \in 1..Len(covs) |-> covs[k][2]]) \div Len(covs))

(* mean over the COV_<subject> columns of one row, NaN skipped *)
COVMean(covs) ==
  LET xs == SelectSeq(covs, IsFloat)
  IN IF xs = <<>> THEN NaN
     ELSE F(SeqSum([k \in 1..Len(xs) |-> xs[k][2]]) \div Len(xs))

NoTable == [saved |-> FALSE, index |-> <<>>, columns |-> <<>>, data |-> <<>>,
            COV |-> <<>>, COV_mean |-> <<>>]

NoPivot == [index |-> <<>>, columns |-> <<>>, data |-> <<>>]

NoFigure == [saved |-> FALSE, patches |-> <<>>, ylim |-> <<>>]

TableOf(d, nuisance) ==
  LET res  == ResultsOf(d)
      pv   == PivotOf(res)
      subjects == Range(SubjectKeys)
      cov  == AsMap([s \in subjects |-> COVColumn(pv, s, nuisance)])
  IN IF \E k \in 1..Len(res) : res[k].mean = TypeError
       THEN [raised |-> "TypeError", results |-> <<>>, pivot |-> NoPivot, table |-> NoTable]
     ELSE IF res = <<>>
       THEN [raised |-> "KeyError", results |-> res, pivot |-> NoPivot, table |-> NoTable]
     ELSE IF \E s \in subjects : cov[s].raised
       THEN [raised |-> "TypeError", results |-> res, pivot |-> pv, table |-> NoTable]
     ELSE [raised  |-> "none",
           results |-> res,
           pivot   |-> pv,
           table   |-> [saved    |-> TRUE,
                        index    |-> pv.index,
                        columns  |-> pv.columns,
                        data     |-> pv.data,
                        COV      |-> [s \in subjects |-> cov[s].val],
                        COV_mean |-> [l \in Range(pv.index) |->
                                        COVMean([i \in 1..Len(SubjectKeys) |->
                                                   cov[SubjectKeys[i]].val[l]])]]]

(* ---------------------------------------------------------------------- *)
(* main                                                                     *)
(* ---------------------------------------------------------------------- *)
Init ==
  /\ pc = "start"
  /\ csv_files = <<>>
  /\ parsed_data = <<>>
  /\ df = <<>>
  /\ fig = NoFigure
  /\ results = <<>>
  /\ pivot = NoPivot
  /\ table = NoTable
  /\ err = "none"

(* lines 223-227: the directory does not exist *)
ExitNoDir ==
  /\ pc = "start"
  /\ pc' = "exit"
  /\ err' = "SystemExit"
  /\ UNCHANGED <<csv_files, parsed_data, df, fig, results, pivot, table>>

(* line 230: the glob over an existing directory *)
Glob ==
  /\ pc = "start"
  /\ \E dir \in Directories : csv_files' = GlobResult(dir)
  /\ pc' = "read"
  /\ UNCHANGED <<parsed_data, df, fig, results, pivot, table, err>>

(* lines 232-244: the message, the read loop and pd.concat *)
ReadAndConcat ==
  /\ pc = "read"
  /\ IF csv_files = <<>>
       THEN /\ pc' = "error"
            /\ err' = "ValueError"
            /\ UNCHANGED parsed_data
       ELSE /\ parsed_data' = Concat(csv_files)
            /\ pc' = "filter"
            /\ UNCHANGED err
  /\ UNCHANGED <<csv_files, df, fig, results, pivot, table>>

(* lines 246-252 *)
LevelFilter ==
  /\ pc = "filter"
  /\ df' = LevelFilterDf(parsed_data)
  /\ pc' = "figure"
  /\ UNCHANGED <<csv_files, parsed_data, fig, results, pivot, table, err>>

(* line 255 *)
GenerateFigure ==
  /\ pc = "figure"
  /\ LET f == FigureOf(df)
     IN IF f.raised = "none"
          THEN /\ fig' = [saved |-> TRUE, patches |-> f.patches, ylim |-> f.ylim]
               /\ pc' = "table"
               /\ UNCHANGED err
          ELSE /\ pc' = "error"
               /\ err' = f.raised
               /\ UNCHANGED fig
  /\ UNCHANGED <<csv_files, parsed_data, df, results, pivot, table>>

(* line 259 *)
ComputeMeanAndCOV ==
  /\ pc = "table"
  /\ \E nuisance \in BOOLEAN :
       LET t == TableOf(df, nuisance)
       IN /\ results' = t.results
          /\ pivot' = t.pivot
          /\ table' = t.table
          /\ IF t.raised = "none"
               THEN pc' = "done" /\ UNCHANGED err
               ELSE pc' = "error" /\ err' = t.raised
  /\ UNCHANGED <<csv_files, parsed_data, df, fig>>

Next ==
  \/ ExitNoDir
  \/ Glob
  \/ ReadAndConcat
  \/ LevelFilter
  \/ GenerateFigure
  \/ ComputeMeanAndCOV

Spec == Init /\ [][Next]_vars

(* ---------------------------------------------------------------------- *)
(* Vocabulary of the properties                                            *)
(* ---------------------------------------------------------------------- *)
RosterSubjects == Range(SubjectKeys)

RosterRaters == Range(LIST_OF_RATER)

(* the records of the filtered frame for one (subject, rater, level) key *)
Matches(s, r, l) ==
  {i \in DOMAIN df : df[i].subject = s /\ df[i].rater = r /\ df[i].spinal_level = l}

DfLevels == {df[i].spinal_level : i \in DOMAIN df}

(* the level filter has run *)
AfterFilter == pc \in {"figure", "table", "done"} \/ (pc = "error" /\ parsed_data # <<>>)

(* compute_mean_and_COV has run past its aggregation loop and the pivot *)
Aggregated == pc = "done" \/ (pc = "error" /\ fig.saved)

(* the midpoints of the raters of subject s that have a record at level l *)
PresentMidpoints(s, l) ==
  LET present == SelectSeq(LIST_OF_RATER, LAMBDA r : Matches(s, r, l) # {})
  IN AsList([k \in 1..Len(present) |->
               LET i == CHOOSE j \in Matches(s, present[k], l) : TRUE
               IN F(2 * df[i].distance_from_pmj_end + df[i].height)])

DuplicateRosterKey ==
  \E s \in RosterSubjects, r \in RosterRaters, l \in DfLevels : Cardinality(Matches(s, r, l)) > 1

(* C1: in the written table, for every roster subject and every level at   *)
(* which at least two of its raters have a midpoint, COV_<subject> is       *)
(* std/mean*100 over exactly the raters that have a value at that level.    *)
C1_COVOverPresentRaters ==
  table.saved =>
    \A s \in RosterSubjects, l \in Range(table.index) :
      LET vals == PresentMidpoints(s, l)
      IN Len(vals) >= 2 => table.COV[s][l] = Percent(RowStd(vals), RowMean(vals))

(* C2: in the written table, COV_<subject> is missing (NaN) at every level  *)
(* where fewer than two of the subject's raters have a midpoint.            *)
C2_COVMissingBelowTwo ==
  table.saved =>
    \A s \in RosterSubjects, l \in Range(table.index) :
      Len(PresentMidpoints(s, l)) < 2 => table.COV[s][l] = NaN

C2_Witness ==
  /\ table.saved
  /\ \E s \in RosterSubjects, l \in Range(table.index) : Len(PresentMidpoints(s, l)) = 1
  /\ \E s \in RosterSubjects, l \in Range(table.index) : Len(PresentMidpoints(s, l)) = 0

(* C3: in the written table, COV_mean of a level is the arithmetic mean of  *)
(* the defined COV_<subject> values of that level, and is missing exactly   *)
(* when every COV_<subject> is missing there.                               *)
C3_COVMeanOverDefined ==
  table.saved =>
    \A l \in Range(table.index) :
      LET defined == SelectSeq(SubjectKeys, LAMBDA s : IsFloat(table.COV[s][l]))
          total   == SeqSum([k \in 1..Len(defined) |-> table.COV[defined[k]][l][2]])
      IN /\ (defined = <<>>) <=> (table.COV_mean[l] = NaN)
         /\ defined # <<>> => table.COV_mean[l] = F(total \div Len(defined))

C3_Witness ==
  /\ table.saved
  /\ \E l \in Range(table.index) :
       \E s1, s2 \in RosterSubjects :
         /\ IsFloat(table.COV[s1][l]) /\ IsFloat(table.COV[s2][l])
         /\ table.COV[s1][l] # table.COV[s2][l]
         /\ \E s3 \in RosterSubjects : table.COV[s3][l] = NaN
         /\ IsFloat(table.COV_mean[l])

(* C4: after the level filter the frame holds exactly the input records     *)
(* with a level in 2..8, and no rectangle, axis limit, midpoint entry or    *)
(* table row comes from a record with another level.                        *)
C4_OnlyCervicalLevels ==
  AfterFilter =>
    LET valid == SelectSeq(parsed_data, LAMBDA rec : rec.spinal_level \in 2..8)
        lows  == {valid[i].distance_from_pmj_start : i \in DOMAIN valid}
                   \cup {valid[i].distance_from_pmj_end : i \in DOMAIN valid}
    IN /\ Len(df) = Len(valid)
       /\ \A i \in DOMAIN df :
            /\ df[i].fname = valid[i].fname
            /\ df[i].spinal_level = valid[i].spinal_level
            /\ df[i].distance_from_pmj_start = valid[i].distance_from_pmj_start
            /\ df[i].distance_from_pmj_end = valid[i].distance_from_pmj_end
            /\ df[i].height = valid[i].height
       /\ \A k \in DOMAIN fig.patches : fig.patches[k].text \in 2..8
       /\ fig.saved => fig.ylim = <<Max2(SetMax(lows) * 105, 16000), Min2(SetMin(lows) * 90, 4000)>>
       /\ \A k \in DOMAIN results : results[k].spinal_level \in 2..8
       /\ Range(pivot.index) \subseteq 2..8
       /\ \A c \in DOMAIN pivot.data : c[1] \in 2..8
       /\ Range(table.index) \subseteq 2..8
       /\ \A c \in DOMAIN table.data : c[1] \in 2..8

C4_Witness ==
  /\ pc = "done"
  /\ fig.saved
  /\ table.saved
  /\ \E i \in DOMAIN parsed_data : parsed_data[i].spinal_level < 2
  /\ \E i \in DOMAIN parsed_data : parsed_data[i].spinal_level > 8

(* C5: the aggregation emits exactly one entry per (roster subject, roster  *)
(* rater, level of the filtered frame); an entry without a matching record  *)
(* carries the marker 'n/a', not a number, and the pivot cell keeps it.     *)
C5_OneEntryPerTriple ==
  Aggregated =>
    /\ Len(results) = Len(SubjectKeys) * Len(LIST_OF_RATER) * Cardinality(DfLevels)
    /\ \A s \in RosterSubjects, r \in RosterRaters, l \in DfLevels :
         LET hits == {k \in DOMAIN results : /\ results[k].subject = s
                                             /\ results[k].rater = r
                                             /\ results[k].spinal_level = l}
         IN /\ Cardinality(hits) = 1
            /\ \A k \in hits :
                 IF Matches(s, r, l) = {}
                   THEN results[k].mean = NA /\ pivot.data[<<l, s, r>>] = NA
                   ELSE IsFloat(results[k].mean) /\ pivot.data[<<l, s, r>>] = results[k].mean

C5_Witness ==
  /\ Aggregated
  /\ \E s \in RosterSubjects, r \in RosterRaters, l \in DfLevels :
       Matches(s, r, l) = {} /\ pivot.data[<<l, s, r>>] = NA
  /\ \E s \in RosterSubjects, r \in RosterRaters, l \in DfLevels : Matches(s, r, l) # {}

(* C6: the midpoint stored for a roster key with exactly one matching       *)
(* record is distance_from_pmj_end + height/2 of that record (in half       *)
(* millimetres: 2*end + height; end 50, height 10 gives 110 = 55.0 mm).     *)
C6_MidpointFromEndAndHeight ==
  Aggregated =>
    \A s \in RosterSubjects, r \in RosterRaters, l \in DfLevels :
      \A i \in Matches(s, r, l) :
        Cardinality(Matches(s, r, l)) = 1 =>
          /\ pivot.data[<<l, s, r>>] = F(2 * df[i].distance_from_pmj_end + df[i].height)
          /\ \A k \in DOMAIN results :
               (results[k].subject = s /\ results[k].rater = r /\ results[k].spinal_level = l)
                 => results[k].mean = F(2 * df[i].distance_from_pmj_end + df[i].height)

C6_Witness ==
  /\ Aggregated
  /\ Len(df) > 1
  /\ \E i \in DOMAIN df :
       /\ df[i].distance_from_pmj_end = 50
       /\ df[i].height = 10
       /\ df[i].distance_from_pmj_start # 50
       /\ df[i].subject \in RosterSubjects
       /\ df[i].rater \in RosterRaters
       /\ pivot.data[<<df[i].spinal_level, df[i].subject, df[i].rater>>] = F(110)

(* C7: when files were read but no record has a cervical level, the run     *)
(* does not end in an error.                                                *)
C7_EmptyFilteredCompletes ==
  (AfterFilter /\ df = <<>>) => pc # "error"

(* C8: the row index of the table is exactly the set of distinct levels of  *)
(* the filtered records, each once, whoever the record belongs to.          *)
C8_RowIndexIsLevels ==
  (Aggregated /\ df # <<>>) =>
    /\ Range(pivot.index) = DfLevels
    /\ Len(pivot.index) = Cardinality(DfLevels)
    /\ table.saved => table.index = pivot.index

C8_Witness ==
  /\ table.saved
  /\ \E l \in Range(table.index) :
       \A i \in DOMAIN df :
         df[i].spinal_level = l =>
           (df[i].subject \notin RosterSubjects \/ df[i].rater \notin RosterRaters)

(* the rectangles drawn at the position of roster key (s, r) for level l *)
PatchesAt(s, r, l) ==
  {k \in DOMAIN fig.patches :
     /\ fig.patches[k].xy[1] = SUBJECT_TO_AXIS[s] * 1000 + RATER_XOFFSET[r]
     /\ fig.patches[k].text = l}

(* the roster part of C9: one rectangle per present roster combination, at  *)
(* axis position + rater offset, spanning [end, end + height]               *)
RosterRectangles ==
  \A s \in RosterSubjects, r \in RosterRaters, l \in 1..(MaxLevel + 1) :
    IF Matches(s, r, l) = {}
      THEN PatchesAt(s, r, l) = {}
      ELSE /\ Cardinality(PatchesAt(s, r, l)) = 1
           /\ \A k \in PatchesAt(s, r, l), i \in Matches(s, r, l) :
                /\ fig.patches[k].xy[2] = df[i].distance_from_pmj_end
                /\ fig.patches[k].height = df[i].height

(* C9 as stated: the saved figure has one rectangle for every (subject,     *)
(* rater, level) combination present in the filtered frame and none for an  *)
(* absent one, placed at axis position + rater offset over [end, end+height]*)
C9_RectanglePerCombination ==
  fig.saved =>
    /\ RosterRectangles
    /\ Len(fig.patches) =
         Cardinality({<<df[i].subject, df[i].rater, df[i].spinal_level>> : i \in DOMAIN df})

(* C9 amended: the saved figure has one rectangle for every combination of  *)
(* the filtered frame whose subject and rater are in the roster, and no     *)
(* other rectangle.                                                         *)
C9_RectanglePerRosterCombination ==
  fig.saved =>
    /\ RosterRectangles
    /\ Len(fig.patches) =
         Cardinality({<<df[i].subject, df[i].rater, df[i].spinal_level>> :
                        i \in {j \in DOMAIN df : /\ df[j].subject \in RosterSubjects
                                                 /\ df[j].rater \in RosterRaters}})

C9_Witness ==
  /\ fig.saved
  /\ Len(fig.patches) > 0
  /\ \E i \in DOMAIN df : df[i].subject \notin RosterSubjects
  /\ \E i \in DOMAIN df : df[i].subject \in RosterSubjects /\ df[i].rater \notin RosterRaters

(* C10: with more than one filtered record on one roster key the run ends   *)
(* in a TypeError; no figure and no table is written and nothing is drawn   *)
(* or aggregated.                                                           *)
C10_DuplicateKeyIsError ==
  DuplicateRosterKey =>
    /\ pc \in {"figure", "error"}
    /\ pc = "error" => err = "TypeError"
    /\ ~fig.saved
    /\ fig.patches = <<>>
    /\ ~table.saved
    /\ results = <<>>

C10_Witness ==
  /\ DuplicateRosterKey
  /\ pc = "error"
  /\ err = "TypeError"

====
